---- MODULE Spec2Model ----
(***************************************************************************)
(* Account ledger: the asset-management chaincode (CreateAsset, ReadAsset, *)
(* UpdateAsset, DeleteAsset, GetAllAssets, GetAssetHistory) running on a   *)
(* versioned key-value ledger, and the REST gateway that submits to it.    *)
(*                                                                         *)
(* Go strings are byte strings: a string is a sequence of one-character    *)
(* tokens.  The token BadByte stands for a byte that is not valid UTF-8,   *)
(* ReplChar for U+FFFD.  An int64 is a record [neg, mag] with mag its      *)
(* decimal digits, most significant first, without leading zeros.          *)
(***************************************************************************)
EXTENDS Integers, Sequences, FiniteSets, TLC

\* ------------------------------------------------------------------------
\* Bounds of the model
\* ------------------------------------------------------------------------
MaxHeight == 3      \* committed writes per behaviour
NumReqs == 2        \* gateway requests that may be in flight together
MaxTx == 3          \* transactions proposed through the gateway per behaviour

\* ------------------------------------------------------------------------
\* Sample arguments
\* ------------------------------------------------------------------------
BadByte == "\\xff"
ReplChar == "\\ufffd"
NulByte == "\\x00"
DigitChars == <<"0", "1", "2", "3", "4", "5", "6", "7", "8", "9">>

\* free text of sample v; the text of sample 2 holds a byte that is not
\* valid UTF-8
Text(v) == IF v = 2 THEN <<DigitChars[v + 1], BadByte>> ELSE <<DigitChars[v + 1]>>

MinInt64Str == <<"-","9","2","2","3","3","7","2","0","3","6","8","5","4","7","7","5","8","0","8">>
CutoffStr == <<"9","2","2","3","3","7","2","0","3","6","8","5","4","7","7","5","8","0","8">>

\* sample arguments: free text, balance string, transaction amount string
Samples ==
  { [v |-> 1, balance |-> <<"+", "0", "5">>, transAmount |-> <<"-", "7">>],
    [v |-> 2, balance |-> MinInt64Str,       transAmount |-> <<"0">>],
    [v |-> 3, balance |-> <<"0">>,           transAmount |-> <<"1", "2">>],
    [v |-> 1, balance |-> <<"a", "b", "c">>, transAmount |-> <<"0">>],
    [v |-> 3, balance |-> <<"1">>,           transAmount |-> CutoffStr] }

\* ------------------------------------------------------------------------
\* strconv: ParseInt(s, 10, 64) and FormatInt(i, 10)
\* ------------------------------------------------------------------------
DigitSet == {DigitChars[i] : i \in 1..10}
DigitValue == [c \in DigitSet |-> (CHOOSE i \in 1..10 : DigitChars[i] = c) - 1]
IsDigit(c) == c \in DigitSet
DigitVal(c) == DigitValue[c]

\* 2^64 - 1 and 2^63 as digit sequences
MaxUint64Mag == <<1,8,4,4,6,7,4,4,0,7,3,7,0,9,5,5,1,6,1,5>>
Int64Cutoff == <<9,2,2,3,3,7,2,0,3,6,8,5,4,7,7,5,8,0,8>>

RECURSIVE StripZeros(_)
StripZeros(m) == IF Len(m) > 1 /\ m[1] = 0 THEN StripZeros(Tail(m)) ELSE m

\* magnitude comparison of two digit sequences without leading zeros
RECURSIVE MagLess(_, _)
MagLess(a, b) ==
  IF Len(a) # Len(b) THEN Len(a) < Len(b)
  ELSE IF Len(a) = 0 THEN FALSE
  ELSE IF a[1] # b[1] THEN a[1] < b[1]
  ELSE MagLess(Tail(a), Tail(b))

ErrSyntax == "invalid syntax"
ErrRange == "value out of range"

\* ParseUint scans left to right: a non-digit is a syntax error, unless the
\* digits before it already overflowed 64 bits.
ParseUint(s) ==
  IF Len(s) = 0 THEN [err |-> ErrSyntax, mag |-> <<0>>]
  ELSE
    LET bad == {i \in 1..Len(s) : ~IsDigit(s[i])}
        n   == IF bad = {} THEN Len(s)
               ELSE (CHOOSE i \in bad : \A j \in bad : i <= j) - 1
        mag == StripZeros([i \in 1..n |-> DigitVal(s[i])])
    IN IF n > 0 /\ MagLess(MaxUint64Mag, mag)
         THEN [err |-> ErrRange, mag |-> MaxUint64Mag]
       ELSE IF bad # {} THEN [err |-> ErrSyntax, mag |-> <<0>>]
       ELSE [err |-> "", mag |-> mag]

parseInt(s) ==
  IF Len(s) = 0 THEN [err |-> ErrSyntax, val |-> [neg |-> FALSE, mag |-> <<0>>]]
  ELSE
    LET neg  == s[1] = "-"
        body == IF s[1] = "+" \/ s[1] = "-" THEN Tail(s) ELSE s
        un   == ParseUint(body)
    IN IF un.err # ""
         THEN [err |-> un.err, val |-> [neg |-> FALSE, mag |-> <<0>>]]
       ELSE IF ~neg /\ ~MagLess(un.mag, Int64Cutoff)
         THEN [err |-> ErrRange, val |-> [neg |-> FALSE, mag |-> <<0>>]]
       ELSE IF neg /\ MagLess(Int64Cutoff, un.mag)
         THEN [err |-> ErrRange, val |-> [neg |-> FALSE, mag |-> <<0>>]]
       ELSE [err |-> "",
             val |-> [neg |-> neg /\ un.mag # <<0>>, mag |-> un.mag]]

FormatInt(v) ==
  (IF v.neg THEN <<"-">> ELSE <<>>) \o [i \in 1..Len(v.mag) |-> DigitChars[v.mag[i] + 1]]

\* ParseInt is parseInt; its values on the sample strings, and on the
\* decimal text of what they parse to, are computed once.
SampleStrings == {n.balance : n \in Samples} \cup {n.transAmount : n \in Samples}
KnownStrings ==
  SampleStrings \cup {FormatInt(parseInt(x).val) : x \in SampleStrings}
ParseIntTable == [x \in KnownStrings |-> parseInt(x)]
ParseInt(s) == IF s \in KnownStrings THEN ParseIntTable[s] ELSE parseInt(s)

\* ------------------------------------------------------------------------
\* encoding/json on Account
\* ------------------------------------------------------------------------
\* json.Marshal writes a string as JSON text: a byte that is not valid UTF-8
\* is written as U+FFFD.  json.Unmarshal returns the text it finds.
EncodeString(s) == [i \in 1..Len(s) |-> IF s[i] = BadByte THEN ReplChar ELSE s[i]]
DecodeString(t) == t

Marshal(acc) ==
  [DEALERID    |-> EncodeString(acc.DEALERID),
   MSISDN      |-> EncodeString(acc.MSISDN),
   MPIN        |-> EncodeString(acc.MPIN),
   BALANCE     |-> FormatInt(acc.BALANCE),
   STATUS      |-> EncodeString(acc.STATUS),
   TRANSAMOUNT |-> FormatInt(acc.TRANSAMOUNT),
   TRANSTYPE   |-> EncodeString(acc.TRANSTYPE),
   REMARKS     |-> EncodeString(acc.REMARKS)]

Unmarshal(raw) ==
  [DEALERID    |-> DecodeString(raw.DEALERID),
   MSISDN      |-> DecodeString(raw.MSISDN),
   MPIN        |-> DecodeString(raw.MPIN),
   BALANCE     |-> ParseInt(raw.BALANCE).val,
   STATUS      |-> DecodeString(raw.STATUS),
   TRANSAMOUNT |-> ParseInt(raw.TRANSAMOUNT).val,
   TRANSTYPE   |-> DecodeString(raw.TRANSTYPE),
   REMARKS     |-> DecodeString(raw.REMARKS)]

\* ------------------------------------------------------------------------
\* The ledger as the chaincode stub sees it
\* ------------------------------------------------------------------------
\* A transaction context ctx holds the world state, which maps each live key
\* to its value and to the version (commit height) of the write that stored
\* it, and the change log of every key ever written.  An absent key has no
\* version, written 0.  A simulation result carries the error the
\* contract returned, its return value, the versions it read and the writes
\* it asked for.
Nil == [nil |-> TRUE]
ErrEmptyKey == "key must not be an empty string"

GetState(ctx, key) ==
  IF key \in DOMAIN ctx.state THEN ctx.state[key].value ELSE Nil
Version(ctx, key) ==
  IF key \in DOMAIN ctx.state THEN ctx.state[key].version ELSE 0
ReadOf(ctx, key) == [key |-> key, version |-> Version(ctx, key)]

PutState(key, raw) ==
  IF key = <<>> THEN [err |-> ErrEmptyKey, writes |-> <<>>]
  ELSE [err |-> "", writes |-> <<[key |-> key, isDelete |-> FALSE, value |-> raw]>>]

DelState(key) ==
  [err |-> "", writes |-> <<[key |-> key, isDelete |-> TRUE, value |-> Nil]>>]

\* ------------------------------------------------------------------------
\* chaincode.go: SmartContract
\* ------------------------------------------------------------------------
AlreadyExists == "asset exists"
NotFound == "not found"
InvalidAmount == {ErrSyntax, ErrRange}

Result(err, ret, reads, writes) ==
  [err |-> err, ret |-> ret, reads |-> reads, writes |-> writes]

exists(ctx, key) == [ok |-> GetState(ctx, key) # Nil, reads |-> {ReadOf(ctx, key)}]

NewAccount(a, bal, tamt) ==
  [DEALERID |-> a.dealerID, MSISDN |-> a.msisdn, MPIN |-> a.mpin,
   BALANCE |-> bal, STATUS |-> a.status, TRANSAMOUNT |-> tamt,
   TRANSTYPE |-> a.transType, REMARKS |-> a.remarks]

\* variants of CreateAsset: without the existence check (a blind write),
\* and without the check of the second ParseInt error
CreateAssetBlind(ctx, a) ==
  LET bal  == ParseInt(a.balance)
      tamt == ParseInt(a.transAmount)
      put  == PutState(a.msisdn, Marshal(NewAccount(a, bal.val, tamt.val)))
  IN IF bal.err # "" THEN Result(bal.err, Nil, {}, <<>>)
     ELSE IF tamt.err # "" THEN Result(tamt.err, Nil, {}, <<>>)
     ELSE Result(put.err, Nil, {}, put.writes)
CreateAssetUncheckedAmount(ctx, a) ==
  LET e    == exists(ctx, a.msisdn)
      bal  == ParseInt(a.balance)
      tamt == ParseInt(a.transAmount)
      put  == PutState(a.msisdn, Marshal(NewAccount(a, bal.val, tamt.val)))
  IN IF e.ok THEN Result(AlreadyExists, Nil, e.reads, <<>>)
     ELSE IF bal.err # "" THEN Result(bal.err, Nil, e.reads, <<>>)
     ELSE Result(put.err, Nil, e.reads, put.writes)
CreateAsset(ctx, a) ==
  LET e    == exists(ctx, a.msisdn)
      bal  == ParseInt(a.balance)
      tamt == ParseInt(a.transAmount)
      put  == PutState(a.msisdn, Marshal(NewAccount(a, bal.val, tamt.val)))
  IN IF e.ok THEN Result(AlreadyExists, Nil, e.reads, <<>>)
     ELSE IF bal.err # "" THEN Result(bal.err, Nil, e.reads, <<>>)
     ELSE IF tamt.err # "" THEN Result(tamt.err, Nil, e.reads, <<>>)
     ELSE Result(put.err, Nil, e.reads, put.writes)

\* variant of ReadAsset that stores the record it read again
ReadAssetTouch(ctx, msisdn) ==
  LET b == GetState(ctx, msisdn)
  IN IF b = Nil THEN Result(NotFound, Nil, {ReadOf(ctx, msisdn)}, <<>>)
     ELSE Result("", Unmarshal(b), {ReadOf(ctx, msisdn)}, PutState(msisdn, b).writes)
ReadAsset(ctx, msisdn) ==
  LET b == GetState(ctx, msisdn)
  IN IF b = Nil THEN Result(NotFound, Nil, {ReadOf(ctx, msisdn)}, <<>>)
     ELSE Result("", Unmarshal(b), {ReadOf(ctx, msisdn)}, <<>>)

\* variant of UpdateAsset that parses the amounts before it checks existence
UpdateAssetParseFirst(ctx, a) ==
  LET e    == exists(ctx, a.msisdn)
      bal  == ParseInt(a.balance)
      tamt == ParseInt(a.transAmount)
      put  == PutState(a.msisdn, Marshal(NewAccount(a, bal.val, tamt.val)))
  IN IF bal.err # "" THEN Result(bal.err, Nil, {}, <<>>)
     ELSE IF tamt.err # "" THEN Result(tamt.err, Nil, {}, <<>>)
     ELSE IF ~e.ok THEN Result(NotFound, Nil, e.reads, <<>>)
     ELSE Result(put.err, Nil, e.reads, put.writes)
\* variant of UpdateAsset without the existence check
UpdateAssetUpsert(ctx, a) ==
  LET e    == exists(ctx, a.msisdn)
      bal  == ParseInt(a.balance)
      tamt == ParseInt(a.transAmount)
      put  == PutState(a.msisdn, Marshal(NewAccount(a, bal.val, tamt.val)))
  IN IF bal.err # "" THEN Result(bal.err, Nil, e.reads, <<>>)
     ELSE IF tamt.err # "" THEN Result(tamt.err, Nil, e.reads, <<>>)
     ELSE Result(put.err, Nil, e.reads, put.writes)
UpdateAsset(ctx, a) ==
  LET e    == exists(ctx, a.msisdn)
      bal  == ParseInt(a.balance)
      tamt == ParseInt(a.transAmount)
      put  == PutState(a.msisdn, Marshal(NewAccount(a, bal.val, tamt.val)))
  IN IF ~e.ok THEN Result(NotFound, Nil, e.reads, <<>>)
     ELSE IF bal.err # "" THEN Result(bal.err, Nil, e.reads, <<>>)
     ELSE IF tamt.err # "" THEN Result(tamt.err, Nil, e.reads, <<>>)
     ELSE Result(put.err, Nil, e.reads, put.writes)

\* variant of DeleteAsset without the existence check (it reads nothing)
DeleteAssetBlind(ctx, msisdn) ==
  LET del == DelState(msisdn)
  IN Result(del.err, Nil, {}, del.writes)
DeleteAsset(ctx, msisdn) ==
  LET e   == exists(ctx, msisdn)
      del == DelState(msisdn)
  IN IF ~e.ok THEN Result(NotFound, Nil, e.reads, <<>>)
     ELSE Result(del.err, Nil, e.reads, del.writes)

\* byte order of the characters that occur in keys
CharOrd(c) ==
  IF IsDigit(c) THEN 48 + DigitVal(c)
  ELSE IF c = NulByte THEN 0
  ELSE IF c = "\\x01" THEN 1
  ELSE 255

RECURSIVE LexLess(_, _)
LexLess(a, b) ==
  IF Len(b) = 0 THEN FALSE
  ELSE IF Len(a) = 0 THEN TRUE
  ELSE IF a[1] # b[1] THEN CharOrd(a[1]) < CharOrd(b[1])
  ELSE LexLess(Tail(a), Tail(b))

RECURSIVE SortKeys(_)
SortKeys(ks) ==
  IF ks = {} THEN <<>>
  ELSE LET k == CHOOSE x \in ks : \A y \in ks \ {x} : LexLess(x, y)
       IN <<k>> \o SortKeys(ks \ {k})

\* GetStateByRange("", ""): the stub replaces the empty start key by
\* "\x01", the first key after the namespace of composite keys ("\x00"), and
\* the peer iterates from there to the end in byte order of the keys.
EmptyKeySubstitute == <<"\\x01">>
GetStateByRange(ctx) ==
  LET ks == SortKeys({k \in DOMAIN ctx.state : ~LexLess(k, EmptyKeySubstitute)})
  IN [i \in 1..Len(ks) |-> [key |-> ks[i], value |-> ctx.state[ks[i]].value]]

\* variant of GetAllAssets that reports an empty range as an error
GetAllAssetsNotFoundOnEmpty(ctx) ==
  LET it == GetStateByRange(ctx)
  IN IF Len(it) = 0 THEN Result(NotFound, Nil, {}, <<>>)
     ELSE Result("", [i \in 1..Len(it) |-> Unmarshal(it[i].value)], {}, <<>>)
GetAllAssets(ctx) ==
  LET it == GetStateByRange(ctx)
  IN Result("", [i \in 1..Len(it) |-> Unmarshal(it[i].value)], {}, <<>>)

Reverse(seq) == [i \in 1..Len(seq) |-> seq[Len(seq) + 1 - i]]

\* GetHistoryForKey: the committed writes of the key.  The stub interface
\* does not fix the direction of the iterator: the peer walks its history
\* index either from the oldest write or from the newest (ctx.newestFirst).
GetHistoryForKey(ctx, key) ==
  LET log == IF key \in DOMAIN ctx.history THEN ctx.history[key] ELSE <<>>
  IN IF ctx.newestFirst THEN Reverse(log) ELSE log

\* variant of HistoryOf that loses the deletion flag
HistoryOfNoFlag(rec) ==
  [TxID |-> rec.txId,
   Value |-> IF rec.value # Nil /\ ~rec.isDelete THEN Unmarshal(rec.value) ELSE Nil,
   IsDelete |-> FALSE]
HistoryOf(rec) ==
  [TxID |-> rec.txId,
   Value |-> IF rec.value # Nil /\ ~rec.isDelete THEN Unmarshal(rec.value) ELSE Nil,
   IsDelete |-> rec.isDelete]

\* variant of GetAssetHistory that reports a key never written as an error
GetAssetHistoryNotFoundOnEmpty(ctx, msisdn) ==
  LET it == GetHistoryForKey(ctx, msisdn)
  IN IF Len(it) = 0 THEN Result(NotFound, Nil, {}, <<>>)
     ELSE Result("", [i \in 1..Len(it) |-> HistoryOf(it[i])], {}, <<>>)
GetAssetHistory(ctx, msisdn) ==
  LET it == GetHistoryForKey(ctx, msisdn)
  IN Result("", [i \in 1..Len(it) |-> HistoryOf(it[i])], {}, <<>>)

\* ------------------------------------------------------------------------
\* State
\* ------------------------------------------------------------------------
VARIABLES
  state,     \* world state: live key -> [value, version]
  history,   \* change log: written key -> sequence of [txId, value, isDelete]
  height,    \* number of valid transactions committed so far
  last,      \* the latest direct contract invocation and its outcome
  reqs,      \* gateway: request slot -> the request it is serving
  queue,     \* the chain: transactions in the order the ordering service fixed
  nextTx     \* gateway: number of transactions proposed so far

vars == <<state, history, height, last, reqs, queue, nextTx>>

Ctx == [state |-> state, history |-> history]
HistoryCtx(newestFirst) ==
  [state |-> state, history |-> history, newestFirst |-> newestFirst]

\* ------------------------------------------------------------------------
\* Ledger commit (validation with version check, then state and log update)
\* ------------------------------------------------------------------------
MVCCValid(ctx, reads) == \A rd \in reads : Version(ctx, rd.key) = rd.version

ApplyWrite(st, w, h) ==
  IF w.isDelete
    THEN [k \in DOMAIN st \ {w.key} |-> st[k]]
    ELSE [k \in DOMAIN st \cup {w.key} |->
            IF k = w.key THEN [value |-> w.value, version |-> h] ELSE st[k]]

LogWrite(hist, w, txId) ==
  LET rec == [txId |-> txId, value |-> w.value, isDelete |-> w.isDelete]
  IN [k \in DOMAIN hist \cup {w.key} |->
        IF k = w.key
          THEN (IF k \in DOMAIN hist THEN Append(hist[k], rec) ELSE <<rec>>)
          ELSE hist[k]]

RECURSIVE ApplyWrites(_, _, _)
ApplyWrites(st, writes, h) ==
  IF writes = <<>> THEN st
  ELSE ApplyWrites(ApplyWrite(st, Head(writes), h), Tail(writes), h)

RECURSIVE LogWrites(_, _, _)
LogWrites(hist, writes, txId) ==
  IF writes = <<>> THEN hist
  ELSE LogWrites(LogWrite(hist, Head(writes), txId), Tail(writes), txId)

\* ------------------------------------------------------------------------
\* Inputs
\* ------------------------------------------------------------------------
Keys == { <<"9">>, <<"1", "0">> }
\* keys a client of the chaincode may also pass: one that begins with the
\* NUL byte, one that holds a byte that is not valid UTF-8
NulKey == <<NulByte, "7">>
BadKey == <<"8", BadByte>>
DirectKeys == Keys \cup {NulKey, BadKey}

ArgsOf(k, n) ==
  [dealerID |-> <<"D">> \o Text(n.v), msisdn |-> k, mpin |-> <<"p">> \o Text(n.v),
   balance |-> n.balance, status |-> <<"S">> \o Text(n.v),
   transAmount |-> n.transAmount, transType |-> <<"T">> \o Text(n.v),
   remarks |-> <<"r">> \o Text(n.v)]

PlainSample == CHOOSE n \in Samples : n.v = 3 /\ n.balance = <<"0">>
AllArgs ==
  {ArgsOf(k, n) : k \in Keys, n \in Samples}
    \cup {ArgsOf(k, PlainSample) : k \in DirectKeys \ Keys}

\* ------------------------------------------------------------------------
\* Direct invocation of the contract by one client at a time: the
\* transaction is simulated and committed before the next one starts.
\* ------------------------------------------------------------------------
NoCall == [fn |-> "none", args |-> Nil, err |-> "", ret |-> Nil]

NoErr == [phase |-> "", cause |-> ""]
IdleReq ==
  [pc |-> "idle", method |-> "", path |-> <<>>, named |-> <<>>, target |-> <<>>, fn |-> "",
   args |-> <<>>, txId |-> 0, snapshot |-> 0, sim |-> Nil, phases |-> <<>>, err |-> NoErr, resp |-> Nil]

Init ==
  /\ state = <<>>
  /\ history = <<>>
  /\ height = 0
  /\ last = NoCall
  /\ reqs = [r \in 1..NumReqs |-> IdleReq]
  /\ queue = <<>>
  /\ nextTx = 0

\* a transaction that wrote nothing leaves the ledger as it is
Invoke(fn, args, res) ==
  /\ last' = [fn |-> fn, args |-> args, err |-> res.err, ret |-> res.ret]
  /\ IF res.err = "" /\ res.writes # <<>>
       THEN /\ height < MaxHeight
            /\ MVCCValid(Ctx, res.reads)
            /\ height' = height + 1
            /\ state' = ApplyWrites(state, res.writes, height + 1)
            /\ history' = LogWrites(history, res.writes, height + 1)
            /\ queue' = Append(queue, [txId |-> height + 1, fn |-> fn,
                                       snapshot |-> height, reads |-> res.reads,
                                       writes |-> res.writes, code |-> "VALID"])
       ELSE UNCHANGED <<state, history, height, queue>>
  /\ UNCHANGED <<reqs, nextTx>>

InvokeCreateAsset == \E a \in AllArgs : Invoke("CreateAsset", a, CreateAsset(Ctx, a))
InvokeUpdateAsset == \E a \in AllArgs : Invoke("UpdateAsset", a, UpdateAsset(Ctx, a))
InvokeDeleteAsset == \E k \in DirectKeys : Invoke("DeleteAsset", k, DeleteAsset(Ctx, k))
InvokeReadAsset == \E k \in DirectKeys : Invoke("ReadAsset", k, ReadAsset(Ctx, k))
InvokeGetAllAssets == Invoke("GetAllAssets", Nil, GetAllAssets(Ctx))
InvokeGetAssetHistory ==
  \E k \in DirectKeys, newestFirst \in BOOLEAN :
    Invoke("GetAssetHistory", k, GetAssetHistory(HistoryCtx(newestFirst), k))


\* ------------------------------------------------------------------------
\* The REST gateway (package main of the API): handlers over
\* contract.SubmitTransaction and contract.EvaluateTransaction
\* ------------------------------------------------------------------------
\* The chaincode receives its arguments as a list of strings.
ArgRec(args) ==
  [dealerID |-> args[1], msisdn |-> args[2], mpin |-> args[3],
   balance |-> args[4], status |-> args[5], transAmount |-> args[6],
   transType |-> args[7], remarks |-> args[8]]

Dispatch(ctx, fn, args) ==
  CASE fn = "CreateAsset"     -> CreateAsset(ctx, ArgRec(args))
    [] fn = "UpdateAsset"     -> UpdateAsset(ctx, ArgRec(args))
    [] fn = "DeleteAsset"     -> DeleteAsset(ctx, args[1])

\* request bodies as c.BindJSON decodes them into an Account; a field the
\* body omits is the empty string
BodyOf(k, n) ==
  [DEALERID |-> <<"D">> \o Text(n.v), MSISDN |-> k, MPIN |-> <<"p">> \o Text(n.v),
   BALANCE |-> ParseInt(n.balance).val, STATUS |-> <<"S">> \o Text(n.v),
   TRANSAMOUNT |-> ParseInt(n.transAmount).val,
   TRANSTYPE |-> <<"T">> \o Text(n.v), REMARKS |-> <<"r">> \o Text(n.v)]
BodySample(v) ==
  CHOOSE n \in Samples : n.v = v /\ ParseInt(n.balance).err = ""
                                 /\ ParseInt(n.transAmount).err = ""
PostBodies ==
  {BodyOf(k, BodySample(v)) : k \in Keys, v \in {1, 3}} \cup {BodyOf(<<>>, BodySample(1))}
\* PUT requests: the path key, and a body that omits the key or names another
PutRequests ==
  {[msisdn |-> p, body |-> BodyOf(k, BodySample(3))] :
     p \in Keys, k \in (Keys \cup {<<>>})} 

SubmitArgs(a) ==
  <<a.DEALERID, a.MSISDN, a.MPIN, FormatInt(a.BALANCE), a.STATUS,
    FormatInt(a.TRANSAMOUNT), a.TRANSTYPE, a.REMARKS>>

\* err.Error(): the text of the failure; the phase that failed is the type
\* of the error value, which the handlers do not look at.
ErrorText(err) == err.cause
ErrDeadline == "context deadline exceeded"
ErrBind == "invalid request body"
ErrConflict == "MVCC_READ_CONFLICT"

SuccessOf(method) ==
  CASE method = "POST"   -> [status |-> 201, message |-> "created"]
    [] method = "PUT"    -> [status |-> 200, message |-> "updated"]
    [] method = "DELETE" -> [status |-> 200, message |-> "deleted"]

\* what a write handler answers once SubmitTransaction has returned err
\* (RespondAlwaysOk: the variant that does not look at err)
RespondAlwaysOk(method, msisdn, err) ==
  [status |-> SuccessOf(method).status,
   body |-> [message |-> SuccessOf(method).message, msisdn |-> msisdn]]
Respond(method, msisdn, err) ==
  IF err # NoErr
    THEN [status |-> 500, body |-> [error |-> ErrorText(err)]]
    ELSE [status |-> SuccessOf(method).status,
          body |-> [message |-> SuccessOf(method).message, msisdn |-> msisdn]]

\* the key the handler names in its answer
Target(q) == IF q.method = "DELETE" THEN q.path ELSE q.args[2]

\* the handler writes its answer and returns; the slot keeps the answer
Finish(q, err) ==
  [q EXCEPT !.pc = "done", !.err = err, !.sim = Nil, !.args = <<>>,
            !.target = Target(q),
            !.resp = Respond(q.method, Target(q), err)]

\* a request is served by the lowest slot that serves no request; the slot
\* shows the answer to its latest request until it takes the next one
Free(r) ==
  /\ reqs[r].pc \in {"idle", "done"}
  /\ \A o \in 1..(r - 1) : reqs[o].pc \notin {"idle", "done"}

\* --- contract.SubmitTransaction: endorse, submit to ordering, commit wait ---
Failure(phase, cause) == [phase |-> phase, cause |-> cause]

\* The handler calls SubmitTransaction.  The endorsing peer simulates the
\* call against its committed state; an error returned by the contract, or a
\* timeout, fails the endorsement.
Propose(r, method, path, named, fn, args) ==
  LET q   == [IdleReq EXCEPT !.method = method, !.path = path,
                             !.named = named, !.fn = fn,
                             !.args = args, !.txId = nextTx + 1,
                             !.snapshot = height]
      sim == Dispatch(Ctx, fn, args)
  IN /\ Free(r)
     /\ nextTx < MaxTx
     /\ nextTx' = nextTx + 1
     /\ \E timeout \in BOOLEAN :
          reqs' = [reqs EXCEPT ![r] =
            IF timeout THEN Finish(q, Failure("endorse", ErrDeadline))
            ELSE IF sim.err # "" THEN Finish(q, Failure("endorse", sim.err))
            ELSE [q EXCEPT !.pc = "endorsed", !.sim = sim,
                           !.phases = Append(q.phases, "endorse")]]
     /\ UNCHANGED <<state, history, height, last, queue>>

BadRequest(r, method) ==
  /\ Free(r)
  /\ reqs' = [reqs EXCEPT ![r] =
       [IdleReq EXCEPT !.pc = "done", !.method = method,
                       !.resp = [status |-> 400, body |-> [error |-> ErrBind]]]]
  /\ UNCHANGED <<state, history, height, last, queue, nextTx>>

\* POST /assets
PostAsset(r) ==
  \/ BadRequest(r, "POST")
  \/ \E a \in PostBodies : Propose(r, "POST", <<>>, a.MSISDN, "CreateAsset", SubmitArgs(a))

\* the account the PUT handler submits: the body, with the path value as
\* its MSISDN only when the body names none
\* (DefaultMSISDNFromPath: the variant that always takes the path value)
DefaultMSISDNFromPath(a, msisdn) == [a EXCEPT !.MSISDN = msisdn]
DefaultMSISDN(a, msisdn) ==
  IF a.MSISDN = <<>> THEN [a EXCEPT !.MSISDN = msisdn] ELSE a

\* PUT /assets/:msisdn
PutAsset(r) ==
  \/ BadRequest(r, "PUT")
  \/ \E p \in PutRequests :
       Propose(r, "PUT", p.msisdn, p.body.MSISDN, "UpdateAsset",
               SubmitArgs(DefaultMSISDN(p.body, p.msisdn)))

\* DELETE /assets/:msisdn
DeleteAssetReq(r) ==
  \E msisdn \in Keys : Propose(r, "DELETE", msisdn, <<>>, "DeleteAsset", <<msisdn>>)

\* snapshot is the ledger height the transaction was simulated at
Envelope(q) ==
  [txId |-> q.txId, fn |-> q.fn, snapshot |-> q.snapshot, reads |-> q.sim.reads,
   writes |-> q.sim.writes, code |-> "PENDING"]

Order(r) ==
  LET q == reqs[r]
  IN /\ q.pc = "endorsed"
     /\ queue' = Append(queue, Envelope(q))
     /\ reqs' = [reqs EXCEPT ![r] =
          [q EXCEPT !.pc = "ordered", !.sim = Nil,
                    !.phases = Append(q.phases, "order")]]
     /\ UNCHANGED <<state, history, height, last, nextTx>>

\* the submit call times out; the envelope may have reached the orderer
OrderTimeout(r) ==
  LET q == reqs[r]
  IN /\ q.pc = "endorsed"
     /\ \E delivered \in BOOLEAN :
          queue' = IF delivered THEN Append(queue, Envelope(q)) ELSE queue
     /\ reqs' = [reqs EXCEPT ![r] = Finish(q, Failure("submit", ErrDeadline))]
     /\ UNCHANGED <<state, history, height, last, nextTx>>

\* the committing peer validates the oldest ordered transaction
Pending == {i \in 1..Len(queue) : queue[i].code = "PENDING"}
Validate ==
  /\ Pending # {}
  /\ LET i  == CHOOSE j \in Pending : \A m \in Pending : j <= m
         tx == queue[i]
     IN IF MVCCValid(Ctx, tx.reads)
          THEN /\ queue' = [queue EXCEPT ![i].code = "VALID"]
               /\ height' = height + 1
               /\ state' = ApplyWrites(state, tx.writes, height + 1)
               /\ history' = LogWrites(history, tx.writes, tx.txId)
          ELSE /\ queue' = [queue EXCEPT ![i].code = ErrConflict]
               /\ UNCHANGED <<state, history, height>>
  /\ UNCHANGED <<last, reqs, nextTx>>

StatusOf(txId) ==
  IF \E i \in 1..Len(queue) : queue[i].txId = txId
    THEN queue[CHOOSE i \in 1..Len(queue) : queue[i].txId = txId].code
    ELSE "PENDING"

CommitStatus(r) ==
  LET q == reqs[r]
  IN /\ q.pc = "ordered"
     /\ StatusOf(q.txId) # "PENDING"
     /\ reqs' = [reqs EXCEPT ![r] =
          IF StatusOf(q.txId) = "VALID"
            THEN Finish([q EXCEPT !.phases = Append(q.phases, "commit")], NoErr)
            ELSE Finish(q, Failure("commit", StatusOf(q.txId)))]
     /\ UNCHANGED <<state, history, height, last, queue, nextTx>>

CommitStatusTimeout(r) ==
  /\ reqs[r].pc = "ordered"
  /\ reqs' = [reqs EXCEPT ![r] =
       Finish(reqs[r], Failure("commit_status", ErrDeadline))]
  /\ UNCHANGED <<state, history, height, last, queue, nextTx>>

\* --- contract.EvaluateTransaction and the GET handlers ---
\* the contract's return value crosses the wire as JSON
WireAccount(acc) == Unmarshal(Marshal(acc))
WireHistory(h) ==
  [TxID |-> h.TxID,
   Value |-> IF h.Value = Nil THEN Nil ELSE WireAccount(h.Value),
   IsDelete |-> h.IsDelete]

Evaluated(route, args, resp) ==
  /\ last' = [fn |-> route, args |-> args, err |-> "", ret |-> resp]
  /\ UNCHANGED <<state, history, height, reqs, queue, nextTx>>

Error500(text) == [status |-> 500, body |-> [error |-> text]]

\* GET /assets
GetAssets ==
  LET res == GetAllAssets(Ctx)
  IN \/ Evaluated("GET /assets", <<>>, Error500(ErrDeadline))
     \/ Evaluated("GET /assets", <<>>,
          [status |-> 200,
           body |-> [i \in 1..Len(res.ret) |-> WireAccount(res.ret[i])]])

\* GET /assets/:msisdn
GetAsset ==
  \E msisdn \in Keys :
    LET res == ReadAsset(Ctx, msisdn)
    IN \/ Evaluated("GET /assets/:msisdn", msisdn, Error500(ErrDeadline))
       \/ Evaluated("GET /assets/:msisdn", msisdn,
            IF res.err # "" THEN Error500(res.err)
            ELSE [status |-> 200, body |-> WireAccount(res.ret)])

\* GET /assets/:msisdn/history
GetHistory ==
  \E msisdn \in Keys, newestFirst \in BOOLEAN :
    LET res == GetAssetHistory(HistoryCtx(newestFirst), msisdn)
    IN \/ Evaluated("GET /assets/:msisdn/history", msisdn, Error500(ErrDeadline))
       \/ Evaluated("GET /assets/:msisdn/history", msisdn,
            [status |-> 200,
             body |-> [i \in 1..Len(res.ret) |-> WireHistory(res.ret[i])]])

NextGW ==
  \/ \E r \in 1..NumReqs : PostAsset(r)
  \/ \E r \in 1..NumReqs : PutAsset(r)
  \/ \E r \in 1..NumReqs : DeleteAssetReq(r)
  \/ \E r \in 1..NumReqs : Order(r)
  \/ \E r \in 1..NumReqs : OrderTimeout(r)
  \/ Validate
  \/ \E r \in 1..NumReqs : CommitStatus(r)
  \/ \E r \in 1..NumReqs : CommitStatusTimeout(r)

SpecGW == Init /\ [][NextGW]_vars

Next ==
  \/ InvokeCreateAsset
  \/ InvokeUpdateAsset
  \/ InvokeDeleteAsset
  \/ InvokeReadAsset
  \/ InvokeGetAllAssets
  \/ InvokeGetAssetHistory
  \/ GetAssets
  \/ GetAsset
  \/ GetHistory

Spec == Init /\ [][Next]_vars

\* ------------------------------------------------------------------------
\* Properties of the contract (checked under Spec)
\* ------------------------------------------------------------------------
\* the record made of the arguments, the two numeric strings parsed
Parsed(a) == NewAccount(a, ParseInt(a.balance).val, ParseInt(a.transAmount).val)
BadAmount(a) == ParseInt(a.balance).err # "" \/ ParseInt(a.transAmount).err # ""
Live == DOMAIN state
LedgerUnchanged ==
  /\ state' = state /\ history' = history /\ height' = height /\ queue' = queue

\* the committed writes to key k, in commit order
WritesTo(k) ==
  SelectSeq(queue, LAMBDA tx : tx.code = "VALID" /\ tx.writes # <<>>
                               /\ tx.writes[1].key = k)
FnsOn(k) == [i \in 1..Len(WritesTo(k)) |-> WritesTo(k)[i].fn]

\* C1: a committed CreateAsset followed by ReadAsset of its key returns the
\* record whose eight fields equal the arguments, BALANCE and TRANSAMOUNT
\* being the parsed values of the two numeric strings.
C1_CreateThenReadReturnsInputs ==
  (last.fn = "CreateAsset" /\ last.err = "") =>
     LET r == ReadAsset(Ctx, last.args.msisdn)
     IN r.err = "" /\ r.ret = Parsed(last.args)

\* C2: CreateAsset on a key that has a live record fails with AlreadyExists,
\* whatever its other arguments, and changes no record, no key and no log.
C2_CreateOnExistingFails ==
  [][(last'.fn = "CreateAsset" /\ last'.args.msisdn \in Live) =>
       (last'.err = AlreadyExists /\ LedgerUnchanged)]_vars

C2_Witness ==
  /\ last.fn = "CreateAsset" /\ last.err = AlreadyExists
  /\ last.args.msisdn \in Live
  /\ BadAmount(last.args)
  /\ Cardinality(Live) = 2

\* C3: UpdateAsset and DeleteAsset on a key without a live record fail with
\* NotFound; no key is written or removed and no history entry is added.
C3_AbsentKeyNotFound ==
  [][(\/ last'.fn = "UpdateAsset" /\ last'.args.msisdn \notin Live
      \/ last'.fn = "DeleteAsset" /\ last'.args \notin Live) =>
       (last'.err = NotFound /\ LedgerUnchanged)]_vars

C3_Witness ==
  /\ last.fn = "UpdateAsset" /\ last.err = NotFound
  /\ ~BadAmount(last.args)
  /\ last.args.msisdn \notin Live
  /\ last.args.msisdn \in DOMAIN history
  /\ Live # {}

\* C4: after a committed UpdateAsset the record read consists exactly of the
\* arguments of the update (numeric strings parsed).
C4_UpdateIsFullOverwrite ==
  (last.fn = "UpdateAsset" /\ last.err = "") =>
     LET r == ReadAsset(Ctx, last.args.msisdn)
     IN r.err = "" /\ r.ret = Parsed(last.args)

\* C5 as stated: CreateAsset or UpdateAsset with a numeric string that does
\* not parse fails with InvalidAmount and writes nothing.
C5_BadAmountIsInvalidAmount ==
  [][(last'.fn \in {"CreateAsset", "UpdateAsset"} /\ BadAmount(last'.args)) =>
       (last'.err \in InvalidAmount /\ LedgerUnchanged)]_vars

\* C5 amended: with a numeric string that does not parse, CreateAsset on an
\* absent key and UpdateAsset on a live key fail with InvalidAmount; on the
\* other keys they fail with AlreadyExists and NotFound; in every case
\* nothing is written.
C5_BadAmountAfterExistenceCheck ==
  [][(last'.fn \in {"CreateAsset", "UpdateAsset"} /\ BadAmount(last'.args)) =>
       /\ LedgerUnchanged
       /\ last'.err # ""
       /\ (last'.fn = "CreateAsset" /\ last'.args.msisdn \notin Live)
             => last'.err \in InvalidAmount
       /\ (last'.fn = "UpdateAsset" /\ last'.args.msisdn \in Live)
             => last'.err \in InvalidAmount
       /\ (last'.fn = "CreateAsset" /\ last'.args.msisdn \in Live)
             => last'.err = AlreadyExists
       /\ (last'.fn = "UpdateAsset" /\ last'.args.msisdn \notin Live)
             => last'.err = NotFound]_vars

C5_Witness ==
  /\ last.fn = "CreateAsset" /\ last.err = ErrSyntax
  /\ last.args.balance = <<"a", "b", "c">>
  /\ last.args.msisdn \notin Live
  /\ Live # {}

\* the history entry expected for a committed write
EntryOf(tx) ==
  [TxID |-> tx.txId,
   Value |-> IF tx.fn = "DeleteAsset" THEN Nil ELSE Unmarshal(tx.writes[1].value),
   IsDelete |-> tx.fn = "DeleteAsset"]
EntriesOf(k) == [i \in 1..Len(WritesTo(k)) |-> EntryOf(WritesTo(k)[i])]

C7_LiveKeysChangeOnlyByCreateAndDelete ==
  [][/\ \A k1, k2 \in DOMAIN state' :
          k1 # k2 => Unmarshal(state'[k1].value).MSISDN
                       # Unmarshal(state'[k2].value).MSISDN
     /\ (last'.fn = "CreateAsset" /\ last'.err = "") =>
          (last'.args.msisdn \notin Live
             /\ DOMAIN state' = Live \cup {last'.args.msisdn})
     /\ (last'.fn = "DeleteAsset" /\ last'.err = "") =>
          (last'.args \in Live /\ DOMAIN state' = Live \ {last'.args})
     /\ (DOMAIN state' # Live) =>
          (last'.fn \in {"CreateAsset", "DeleteAsset"} /\ last'.err = "")
     /\ \A k \in Live \cap DOMAIN state' :
          state'[k] # state[k] =>
            (last'.fn = "UpdateAsset" /\ last'.err = "" /\ last'.args.msisdn = k)
    ]_vars

C7_Witness ==
  /\ last.fn = "DeleteAsset" /\ last.err = ""
  /\ last.args \notin Live
  /\ Cardinality(Live) = 1
  /\ Len(queue) = 3

\* ------------------------------------------------------------------------
\* Properties of submission through the gateway (checked under SpecGW)
\* ------------------------------------------------------------------------
Chain == 1..Len(queue)
KeyOfTx(tx) == tx.writes[1].key
IsCommitted(i, fn, k) ==
  queue[i].fn = fn /\ KeyOfTx(queue[i]) = k /\ queue[i].code = "VALID"
FnOfTx(txId) == queue[CHOOSE i \in Chain : queue[i].txId = txId].fn

\* C8 as stated: of two CreateAsset transactions for the same key that were
\* simulated against the same ledger state, at most one commits.
C8_AtMostOneConcurrentCreateCommits ==
  \A i, j \in Chain :
    (/\ i < j
     /\ queue[i].fn = "CreateAsset" /\ queue[j].fn = "CreateAsset"
     /\ KeyOfTx(queue[i]) = KeyOfTx(queue[j])
     /\ queue[i].snapshot = queue[j].snapshot)
    => ~(queue[i].code = "VALID" /\ queue[j].code = "VALID")

\* C8 amended: two CreateAsset transactions for the same key both commit
\* only with a committed DeleteAsset of the key between them; a CreateAsset
\* never commits on a key that has a live record, so no committed record is
\* overwritten by a create.
C8_CreateCommitsOnlyOnAbsentKey ==
  /\ \A i, j \in Chain :
       (i < j /\ \E k \in Keys : IsCommitted(i, "CreateAsset", k)
                                 /\ IsCommitted(j, "CreateAsset", k))
       => \E m \in (i + 1)..(j - 1) :
            IsCommitted(m, "DeleteAsset", KeyOfTx(queue[i]))
  /\ \A k \in DOMAIN history : \A n \in 2..Len(history[k]) :
       FnOfTx(history[k][n].txId) = "CreateAsset" => history[k][n - 1].isDelete

\* two creates of one key, both endorsed on the same state: the first
\* commits, the second is rejected, the record is the first one's
C8_Witness ==
  \E i, j \in Chain :
    /\ i < j
    /\ queue[i].fn = "CreateAsset" /\ queue[j].fn = "CreateAsset"
    /\ KeyOfTx(queue[i]) = KeyOfTx(queue[j])
    /\ queue[i].snapshot = queue[j].snapshot
    /\ queue[i].writes # queue[j].writes
    /\ queue[i].code = "VALID" /\ queue[j].code = ErrConflict
    /\ KeyOfTx(queue[i]) \in DOMAIN state
    /\ state[KeyOfTx(queue[i])].value = queue[i].writes[1].value

IsWriteRequest(q) == q.pc = "done" /\ q.method \in {"POST", "PUT", "DELETE"}

\* C9: a write request is answered created, updated or deleted only when
\* its transaction has passed endorsement, ordering and commit, in that
\* order, and its write is in the ledger.
C9_SuccessOnlyAfterCommit ==
  \A r \in 1..NumReqs :
    (IsWriteRequest(reqs[r]) /\ reqs[r].resp.status \in {200, 201}) =>
       /\ reqs[r].err = NoErr
       /\ reqs[r].phases = <<"endorse", "order", "commit">>
       /\ StatusOf(reqs[r].txId) = "VALID"
       /\ reqs[r].target \in DOMAIN history
       /\ \E n \in 1..Len(history[reqs[r].target]) :
            history[reqs[r].target][n].txId = reqs[r].txId

C9_Witness ==
  \E r \in 1..NumReqs :
    /\ IsWriteRequest(reqs[r])
    /\ reqs[r].resp = [status |-> 201,
                       body |-> [message |-> "created", msisdn |-> reqs[r].target]]
    /\ reqs[r].target \in DOMAIN state

\* C10: the answer to a request whose commit wait failed (outcome unknown)
\* differs from the answer to a request whose endorsement failed (nothing
\* written).
C10_UnknownOutcomeDistinguishable ==
  \A r1, r2 \in 1..NumReqs :
    (/\ IsWriteRequest(reqs[r1]) /\ reqs[r1].err.phase = "commit_status"
     /\ IsWriteRequest(reqs[r2]) /\ reqs[r2].err.phase = "endorse")
    => reqs[r1].resp # reqs[r2].resp

\* ------------------------------------------------------------------------
\* Error mapping and listing
\* ------------------------------------------------------------------------
BusinessErrors == {AlreadyExists, NotFound} \cup InvalidAmount

\* C11: a request that failed by a business rule of the contract
\* (AlreadyExists, NotFound, InvalidAmount) is answered with a status in
\* 400..499, not with the 5xx status of internal faults.
C11_BusinessErrorsAre4xx ==
  /\ \A r \in 1..NumReqs :
       (IsWriteRequest(reqs[r]) /\ reqs[r].err.phase = "endorse"
          /\ reqs[r].err.cause \in BusinessErrors)
       => reqs[r].resp.status \in 400..499
  /\ (last.fn = "GET /assets/:msisdn" /\ last.ret.status # 200
        /\ last.ret.body.error \in BusinessErrors)
       => last.ret.status \in 400..499

\* C12: on a ledger without live record GetAllAssets returns the empty
\* sequence and no error, also after every created record was deleted; GET
\* /assets then answers 200 with the empty list whenever the evaluate call
\* itself returned.
C12_GetAllAssetsOnEmptyLedger ==
  /\ (last.fn = "GetAllAssets" /\ Live = {}) =>
        (last.err = "" /\ last.ret = <<>>)
  /\ (last.fn = "GET /assets" /\ Live = {}) =>
        last.ret \in {[status |-> 200, body |-> <<>>], Error500(ErrDeadline)}

C12_Witness ==
  /\ last.fn = "GetAllAssets" /\ last.err = "" /\ last.ret = <<>>
  /\ Live = {}
  /\ \E k \in DOMAIN history :
       Len(history[k]) = 2 /\ history[k][2].isDelete

\* C13: GetAllAssets returns exactly the live records: for each live key,
\* in lexicographic order of the keys, the record ReadAsset returns for it,
\* once, and nothing for a key without live record.
C13_GetAllAssetsListsLiveRecords ==
  last.fn = "GetAllAssets" =>
     /\ last.err = ""
     /\ last.ret = [i \in 1..Cardinality(Live) |->
                      ReadAsset(Ctx, SortKeys(Live)[i]).ret]

\* C14: the existence check comes before numeric validation.  UpdateAsset
\* on an absent key with an unparsable amount fails with NotFound,
\* CreateAsset on a live key with an unparsable amount fails with
\* AlreadyExists, and InvalidAmount is returned only by a CreateAsset on an
\* absent key or an UpdateAsset on a live key.
C14_ExistenceCheckBeforeValidation ==
  [][/\ (last'.fn = "UpdateAsset" /\ BadAmount(last'.args)
           /\ last'.args.msisdn \notin Live) => last'.err = NotFound
     /\ (last'.fn = "CreateAsset" /\ BadAmount(last'.args)
           /\ last'.args.msisdn \in Live) => last'.err = AlreadyExists
     /\ (last'.err \in InvalidAmount) =>
          /\ last'.fn \in {"CreateAsset", "UpdateAsset"}
          /\ BadAmount(last'.args)
          /\ last'.fn = "CreateAsset" => last'.args.msisdn \notin Live
          /\ last'.fn = "UpdateAsset" => last'.args.msisdn \in Live
    ]_vars

C14_Witness ==
  /\ last.fn = "UpdateAsset" /\ last.err = NotFound
  /\ BadAmount(last.args)
  /\ last.args.msisdn \notin Live

\* ------------------------------------------------------------------------
\* Concurrent submissions (checked under SpecGW)
\* ------------------------------------------------------------------------
IndexOfTx(txId) == CHOOSE i \in Chain : queue[i].txId = txId
\* the height a committed transaction was committed at
CommitHeight(txId) ==
  Cardinality({i \in 1..IndexOfTx(txId) : queue[i].code = "VALID"})
\* the version of key k that entry n of its history replaced (0: absent)
ReplacedVersion(k, n) ==
  IF n = 1 \/ history[k][n - 1].isDelete THEN 0
  ELSE CommitHeight(history[k][n - 1].txId)
HistoryFns(k) == [n \in 1..Len(history[k]) |-> FnOfTx(history[k][n].txId)]

\* C15: under every interleaving of concurrently simulated submissions the
\* committed history of each key is well formed (it starts with a create,
\* an update or delete follows a create or update, a create is first or
\* follows a delete), and every committed write read, when it was
\* simulated, the version of the key that it replaced at commit.
C15_CommittedHistoryWellFormed ==
  \A k \in DOMAIN history :
    LET f == HistoryFns(k)
    IN \A n \in 1..Len(f) :
         /\ n = 1 => f[n] = "CreateAsset"
         /\ (n > 1 /\ f[n] \in {"UpdateAsset", "DeleteAsset"}) =>
              f[n - 1] \in {"CreateAsset", "UpdateAsset"}
         /\ (n > 1 /\ f[n] = "CreateAsset") => f[n - 1] = "DeleteAsset"
         /\ history[k][n].isDelete <=> f[n] = "DeleteAsset"
         /\ queue[IndexOfTx(history[k][n].txId)].reads
              = {[key |-> k, version |-> ReplacedVersion(k, n)]}

\* an update and a delete of one key simulated on the same state: the one
\* ordered first commits, the other is rejected by the version check
C15_Witness ==
  \E i, j \in Chain :
    /\ i < j
    /\ {queue[i].fn, queue[j].fn} = {"UpdateAsset", "DeleteAsset"}
    /\ KeyOfTx(queue[i]) = KeyOfTx(queue[j])
    /\ queue[i].snapshot = queue[j].snapshot
    /\ queue[i].code = "VALID" /\ queue[j].code = ErrConflict
    /\ Len(history[KeyOfTx(queue[i])]) = 2

\* ------------------------------------------------------------------------
\* Live state and history (checked under Spec)
\* ------------------------------------------------------------------------
Newest(k) == history[k][Len(history[k])]

WriteFns == {"CreateAsset", "UpdateAsset", "DeleteAsset"}
KeyOfCall(c) ==
  IF c.fn \in {"DeleteAsset", "ReadAsset"} THEN c.args ELSE c.args.msisdn
IsPrefix(p, q) == Len(p) <= Len(q) /\ SubSeq(q, 1, Len(p)) = p
LogOf(k) == IF k \in DOMAIN history THEN history[k] ELSE <<>>

ReadFns == {"ReadAsset", "GetAllAssets", "GetAssetHistory"}
ReadRoutes == {"GET /assets", "GET /assets/:msisdn", "GET /assets/:msisdn/history"}

\* C18: ReadAsset, GetAllAssets and GetAssetHistory are read-only.  Called
\* directly or through the GET handlers, succeeding or failing, they leave
\* every record, every history, the ledger height and the chain unchanged,
\* and a GET handler proposes no transaction.
C18_ReadsChangeNothing ==
  [][/\ (last'.fn \in ReadFns \cup ReadRoutes) => LedgerUnchanged
     /\ (last'.fn \in ReadRoutes) => (nextTx' = nextTx /\ reqs' = reqs)
    ]_vars

C18_Witness ==
  /\ last.fn = "GET /assets/:msisdn"
  /\ last.ret = Error500(NotFound)
  /\ last.args \in DOMAIN history
  /\ Live # {}

\* ------------------------------------------------------------------------
\* The key an update request targets (checked under SpecGW)
\* ------------------------------------------------------------------------
WroteTo(txId, k) ==
  k \in DOMAIN history /\ \E n \in 1..Len(history[k]) : history[k][n].txId = txId

\* C19: an update request targets the subscriber identifier its body names,
\* and the path value only when the body names none; the two are not
\* compared.  An update that was answered updated wrote the record of its
\* target, under the target's key, and wrote nothing to the key of its path
\* when that is another key.
C19_UpdateTargetsBodyKey ==
  \A r \in 1..NumReqs :
    (IsWriteRequest(reqs[r]) /\ reqs[r].method = "PUT"
       /\ reqs[r].resp.status = 200) =>
      /\ reqs[r].target =
           (IF reqs[r].named = <<>> THEN reqs[r].path ELSE reqs[r].named)
      /\ reqs[r].resp.body.msisdn = reqs[r].target
      /\ WroteTo(reqs[r].txId, reqs[r].target)
      /\ \A k \in DOMAIN history : \A n \in 1..Len(history[k]) :
           history[k][n].txId = reqs[r].txId =>
             (k = reqs[r].target /\ history[k][n].value.MSISDN = k)

\* a PUT on the path of one live key with a body that names another live
\* key: the record of the body's key is overwritten, that of the path's key
\* is as it was created
C19_Witness ==
  \E r \in 1..NumReqs :
    /\ IsWriteRequest(reqs[r]) /\ reqs[r].method = "PUT"
    /\ reqs[r].resp.status = 200
    /\ reqs[r].named # <<>> /\ reqs[r].named # reqs[r].path
    /\ reqs[r].path \in Live /\ reqs[r].named \in Live
    /\ Len(history[reqs[r].path]) = 1
    /\ Len(history[reqs[r].named]) = 2
    /\ state[reqs[r].named].value = history[reqs[r].named][2].value
    /\ history[reqs[r].named][2].txId = reqs[r].txId
    /\ state[reqs[r].path].value.DEALERID # state[reqs[r].named].value.DEALERID

\* ------------------------------------------------------------------------
\* Reuse of a key after deletion (checked under Spec)
\* ------------------------------------------------------------------------
Deleted == {k \in DOMAIN history : k \notin Live}

\* C20: after a committed DeleteAsset of a key, ReadAsset, UpdateAsset and
\* DeleteAsset of the key fail with NotFound, and CreateAsset of the key
\* succeeds again: the record read afterwards equals the new arguments, and
\* the history of the key keeps its entries and gains the create entry
\* after the deletion entry.
C20_KeyReusableAfterDeletion ==
  [][(last'.fn \in WriteFns \cup {"ReadAsset"} /\ KeyOfCall(last') \in Deleted) =>
       LET k == KeyOfCall(last')
       IN /\ Newest(k).isDelete
          /\ last'.fn \in {"ReadAsset", "UpdateAsset", "DeleteAsset"} =>
               (last'.err = NotFound /\ LedgerUnchanged)
          /\ (last'.fn = "CreateAsset" /\ ~BadAmount(last'.args)) =>
               /\ last'.err = ""
               /\ ReadAsset([state |-> state', history |-> history'], k).ret
                     = Parsed(last'.args)
               /\ Len(history'[k]) = Len(history[k]) + 1
               /\ IsPrefix(history[k], history'[k])
               /\ ~history'[k][Len(history'[k])].isDelete
     ]_vars
====
